---------------------------- MODULE Spec2Model ----------------------------
(***************************************************************************)
(* Model of convert_v2_to_v1.py: the v2 -> v1 affiliate-link converter.    *)
(*                                                                         *)
(* A Python str is a sequence of one-character strings, so that lower(),   *)
(* strip(), replace() and the "in" substring test are computed character   *)
(* by character.  A JSON value is a tagged pair <<type, v>>; a Python dict *)
(* is an insertion-ordered sequence of <<key, value>> pairs, keys unique   *)
(* (the keys of a dict held in a JSON value are JSON values themselves).   *)
(* A function that can raise returns [ok |-> TRUE, val |-> v] or           *)
(* [ok |-> FALSE, err |-> <exception class>].                              *)
(***************************************************************************)
EXTENDS Integers, Sequences, FiniteSets, TLC

VARIABLES
  pc,             \* position of main(): "start", "mkdir", "glob", "loop", "summary", "done"
  v2,             \* the input directory: "missing", or a function file name -> content
  v1,             \* the output directory: "absent", or a function file name -> content
  v1_at_start,    \* the output directory as main() found it
  v2_files,       \* main's sorted list of discovered input files
  next_file,      \* 1-based index into v2_files of the file the loop handles next
  success_count,  \* main's success_count
  fail_count,     \* main's fail_count
  exit_status,    \* main's return value, "none" until it returns
  calls,          \* the calls of convert_file made so far: <<[name, ret]>>
  fn,             \* converter function applied last ("none" before any call)
  arg,            \* its argument(s)
  res             \* its result

vars ==
  <<pc, v2, v1, v1_at_start, v2_files, next_file, success_count, fail_count,
    exit_status, calls, fn, arg, res>>

driver_vars ==
  <<pc, v2, v1, v1_at_start, v2_files, next_file, success_count, fail_count,
    exit_status, calls>>

call_vars == <<fn, arg, res>>

(***************************************************************************)
(* Python values                                                           *)
(***************************************************************************)
JNull == <<"null">>

JNum(n) == <<"num", n>>

JStr(s) == <<"str", s>>

JList(xs) == <<"list", xs>>

JDict(d) == <<"dict", d>>

Ok(v) == [ok |-> TRUE, val |-> v]

Raise(e) == [ok |-> FALSE, err |-> e]

\* F applied to the value of x, with x evaluated once
Let1(x, F(_)) == CHOOSE y \in {F(value) : value \in {x}} : TRUE

\* d is a sequence of <<key, value>> pairs
dict_has(d, k) == \E i \in 1..Len(d) : d[i][1] = k

dict_get(d, k, default) ==
  IF dict_has(d, k)
  THEN d[CHOOSE i \in 1..Len(d) : d[i][1] = k][2]
  ELSE default

dict_set(d, k, val) ==
  IF dict_has(d, k)
  THEN LET idx == CHOOSE i \in 1..Len(d) : d[i][1] = k
       IN  [d EXCEPT ![idx] = <<d[idx][1], val>>]
  ELSE Append(d, <<k, val>>)

dict_keys(d) == [i \in 1..Len(d) |-> d[i][1]]

\* Python truthiness of a JSON value ("not badge")
truthy(x) ==
  CASE x[1] = "null" -> FALSE
    [] x[1] = "num"  -> x[2] # 0
    [] OTHER        -> Len(x[2]) > 0

(***************************************************************************)
(* str methods                                                             *)
(***************************************************************************)
UpperChars ==
  <<"A","B","C","D","E","F","G","H","I","J","K","L","M",
    "N","O","P","Q","R","S","T","U","V","W","X","Y","Z">>

LowerChars ==
  <<"a","b","c","d","e","f","g","h","i","j","k","l","m",
    "n","o","p","q","r","s","t","u","v","w","x","y","z">>

lower_char(c) ==
  IF \E i \in 1..Len(UpperChars) : UpperChars[i] = c
  THEN LowerChars[CHOOSE i \in 1..Len(UpperChars) : UpperChars[i] = c]
  ELSE c

upper_char(c) ==
  IF \E i \in 1..Len(LowerChars) : LowerChars[i] = c
  THEN UpperChars[CHOOSE i \in 1..Len(LowerChars) : LowerChars[i] = c]
  ELSE c

str_lower(s) == [i \in 1..Len(s) |-> lower_char(s[i])]

str_upper(s) == [i \in 1..Len(s) |-> upper_char(s[i])]

is_space(c) == c \in {" ", "\t", "\n"}

RECURSIVE str_lstrip(_)
str_lstrip(s) ==
  IF Len(s) > 0 /\ is_space(Head(s)) THEN str_lstrip(Tail(s)) ELSE s

RECURSIVE str_rstrip(_)
str_rstrip(s) ==
  IF Len(s) > 0 /\ is_space(s[Len(s)])
  THEN str_rstrip(SubSeq(s, 1, Len(s) - 1))
  ELSE s

str_strip(s) == str_rstrip(str_lstrip(s))

\* s.replace(old, new) for one-character old and new
str_replace(s, old, new) ==
  [i \in 1..Len(s) |-> IF s[i] = old THEN new ELSE s[i]]

\* sub in s
str_contains(s, sub) ==
  \E i \in 0..(Len(s) - Len(sub)) : SubSeq(s, i + 1, i + Len(sub)) = sub

(***************************************************************************)
(* Configuration                                                           *)
(***************************************************************************)
VERSION == 3

DEFAULT_AFFILIATE_TAG_AMAZON == <<"d","o","r","m","r","e","a","d","y","-","2","0">>

DEFAULT_AFFILIATE_TAG_WALMART == <<"d","o","r","m","r","e","a","d","y">>

DEFAULT_AFFILIATE_TAG_TARGET == <<"d","o","r","m","r","e","a","d","y">>

DEFAULT_AFFILIATE_TAG_OTHER == <<"d","o","r","m","r","e","a","d","y">>

\* datetime.now().strftime("%Y-%m-%d"), evaluated once when the module loads
TODAY == <<"2","0","2","5","-","1","2","-","0","1">>

BADGE_MAPPING ==
  <<
     <<<<"b","u","d","g","e","t"," ","b","e","s","t","-","s","e","l","l","e","r">>,
       <<"b","e","s","t","_","s","e","l","l","e","r">>>>,
     <<<<"b","e","s","t","-","s","e","l","l","e","r">>,
       <<"b","e","s","t","_","s","e","l","l","e","r">>>>,
     <<<<"A","m","a","z","o","n"," ","n","o",".","1"," ","b","e","s","t","-","s","e","l","l","e","r">>,
       <<"b","e","s","t","_","s","e","l","l","e","r">>>>,
     <<<<"a","m","a","z","o","n","s"," ","c","h","o","i","c","e">>,
       <<"a","m","a","z","o","n","s","_","c","h","o","i","c","e">>>>,
     <<<<"a","m","a","z","o","n"," ","c","h","o","i","c","e","-","s","t","y","l","e">>,
       <<"a","m","a","z","o","n","s","_","c","h","o","i","c","e">>>>,
     <<<<"b","u","d","g","e","t"," ","p","i","c","k">>,
       <<"b","u","d","g","e","t","_","p","i","c","k">>>>,
     <<<<"d","o","r","m"," ","b","u","n","d","l","e">>,
       <<"d","o","r","m","_","b","u","n","d","l","e">>>>,
     <<<<"a","d","j","u","s","t","a","b","l","e"," ","l","u","x","u","r","y">>,
       <<"p","r","e","m","i","u","m">>>>,
     <<<<"p","r","e","m","i","u","m"," ","a","d","j","u","s","t","a","b","l","e">>,
       <<"p","r","e","m","i","u","m">>>>,
     <<<<"m","u","l","t","i","p","l","e"," ","o","p","t","i","o","n","s">>,
       <<"m","u","l","t","i","p","l","e","_","o","p","t","i","o","n","s">>>>,
     <<<<"m","u","l","t","i","p","l","e"," ","s","t","y","l","e","s">>,
       <<"m","u","l","t","i","p","l","e","_","o","p","t","i","o","n","s">>>>,
     <<<<"h","e","a","v","y","-","d","u","t","y">>,
       <<"h","e","a","v","y","_","d","u","t","y">>>>,
     <<<<"a","d","j","u","s","t","a","b","l","e"," ","h","e","i","g","h","t">>,
       <<"a","d","j","u","s","t","a","b","l","e">>>>,
     <<<<"p","o","p","u","l","a","r"," ","d","o","r","m"," ","u","p","g","r","a","d","e">>,
       <<"p","o","p","u","l","a","r">>>>,
     <<<<"p","o","p","u","l","a","r"," ","d","o","r","m"," ","l","a","m","p">>,
       <<"p","o","p","u","l","a","r">>>>,
     <<<<"p","l","u","s","h"," ","c","o","m","f","o","r","t">>,
       <<"c","o","m","f","o","r","t">>>>,
     <<<<"d","e","c","o","r"," ","+"," ","l","u","x","e"," ","f","e","e","l">>,
       <<"p","r","e","m","i","u","m">>>>,
     <<<<"t","o","p","-","r","a","t","e","d">>,
       <<"t","o","p","_","r","a","t","e","d">>>>,
     <<<<"b","u","d","g","e","t"," ","e","n","c","a","s","e","m","e","n","t">>,
       <<"b","u","d","g","e","t","_","p","i","c","k">>>>,
     <<<<"s","o","f","t"," ","&"," ","q","u","i","e","t">>,
       <<"c","o","m","f","o","r","t">>>>,
     <<<<"a","l","l","e","r","g","y","-","f","r","i","e","n","d","l","y">>,
       <<"a","l","l","e","r","g","y","_","f","r","i","e","n","d","l","y">>>>,
     <<<<"v","a","l","u","e"," ","p","a","c","k">>,
       <<"v","a","l","u","e","_","p","a","c","k">>>>,
     <<<<"b","i","g","-","b","o","x"," ","o","p","t","i","o","n">>,
       <<"i","n","_","s","t","o","r","e">>>>,
     <<<<"b","u","d","g","e","t"," ","f","u","l","l","-","b","o","d","y">>,
       <<"b","u","d","g","e","t","_","p","i","c","k">>>>,
     <<<<"b","u","d","g","e","t"," ","s","e","t">>,
       <<"b","u","d","g","e","t","_","p","i","c","k">>>>,
     <<<<"b","u","d","g","e","t"," ","c","o","z","y">>,
       <<"b","u","d","g","e","t","_","p","i","c","k">>>>,
     <<<<"l","a","r","g","e"," ","c","a","p","a","c","i","t","y">>,
       <<"l","a","r","g","e","_","c","a","p","a","c","i","t","y">>>>,
     <<<<"m","a","n","y"," ","o","p","t","i","o","n","s">>,
       <<"m","u","l","t","i","p","l","e","_","o","p","t","i","o","n","s">>>>
  >>

(***************************************************************************)
(* Normalizers                                                             *)
(***************************************************************************)
\* retailer is a str
normalize_retailer(retailer) == str_strip(str_lower(retailer))

\* BADGE_MAPPING.get(badge_lower, default)
badge_lookup(badge_lower, default) == dict_get(BADGE_MAPPING, badge_lower, default)

\* badge is a JSON value; the result is None (JNull) or a str
normalize_badge(badge) ==
  IF ~truthy(badge)
  THEN Ok(JNull)
  ELSE IF badge[1] # "str"
  THEN Raise("AttributeError")
  ELSE LET badge_lower == str_strip(str_lower(badge[2]))
       IN  Ok(JStr(badge_lookup(badge_lower,
                     str_replace(str_replace(badge_lower, " ", "_"), "-", "_"))))

\* get_affiliate_tag without the lower(): what C7's formula must tell apart
get_affiliate_tag_case_sensitive(retailer) ==
  IF str_contains(retailer, <<"a","m","a","z","o","n">>)
  THEN DEFAULT_AFFILIATE_TAG_AMAZON
  ELSE IF str_contains(retailer, <<"w","a","l","m","a","r","t">>)
  THEN DEFAULT_AFFILIATE_TAG_WALMART
  ELSE IF str_contains(retailer, <<"t","a","r","g","e","t">>)
  THEN DEFAULT_AFFILIATE_TAG_TARGET
  ELSE DEFAULT_AFFILIATE_TAG_OTHER

\* retailer is a str
get_affiliate_tag(retailer) ==
  LET retailer_lower == str_lower(retailer)
  IN  IF str_contains(retailer_lower, <<"a","m","a","z","o","n">>)
      THEN DEFAULT_AFFILIATE_TAG_AMAZON
      ELSE IF str_contains(retailer_lower, <<"w","a","l","m","a","r","t">>)
      THEN DEFAULT_AFFILIATE_TAG_WALMART
      ELSE IF str_contains(retailer_lower, <<"t","a","r","g","e","t">>)
      THEN DEFAULT_AFFILIATE_TAG_TARGET
      ELSE DEFAULT_AFFILIATE_TAG_OTHER

(***************************************************************************)
(* Converters                                                              *)
(***************************************************************************)
\* x[key] for a str key: KeyError on a dict without the key, TypeError on a
\* value that is no dict (str, list, int and None do not take str subscripts)
py_getitem(x, key) ==
  IF x[1] # "dict"
  THEN Raise("TypeError")
  ELSE IF ~dict_has(x[2], key)
  THEN Raise("KeyError")
  ELSE Ok(dict_get(x[2], key, JNull))

\* the elements a for loop (or enumerate) sees
py_iter(x) ==
  CASE x[1] = "list" -> Ok(x[2])
    [] x[1] = "dict" -> Ok(dict_keys(x[2]))
    [] x[1] = "str"  -> Ok([i \in 1..Len(x[2]) |-> JStr(<<x[2][i]>>)])
    [] OTHER        -> Raise("TypeError")

\* key in link and link[key] is not None
present_not_none(link, key) ==
  dict_has(link, key) /\ dict_get(link, key, JNull) # JNull

\* link_priority without the + 1: what C5's formula must tell apart
link_priority_zero_based(priority_index) == priority_index

\* priority_index + 1  # 1-indexed
link_priority(priority_index) == priority_index + 1

\* copies an optional numeric field when present and not None
copy_optional(v1_link, link, key) ==
  IF present_not_none(link, key)
  THEN dict_set(v1_link, key, dict_get(link, key, JNull))
  ELSE v1_link

convert_link(link, priority_index) ==
  IF link[1] # "dict"
  THEN Raise("AttributeError")
  ELSE LET raw_retailer == dict_get(link[2], JStr(<<"r","e","t","a","i","l","e","r">>), JStr(<<>>))
       IN
       IF raw_retailer[1] # "str"
       THEN Raise("AttributeError")
       ELSE IF ~dict_has(link[2], JStr(<<"u","r","l">>))
       THEN Raise("KeyError")
       ELSE
         LET retailer == normalize_retailer(raw_retailer[2])
             v1_link ==
               << <<JStr(<<"r","e","t","a","i","l","e","r">>), JStr(retailer)>>,
                  <<JStr(<<"u","r","l">>), dict_get(link[2], JStr(<<"u","r","l">>), JNull)>>,
                  <<JStr(<<"d","i","s","p","l","a","y","N","a","m","e">>), dict_get(link[2], JStr(<<"d","i","s","p","l","a","y","N","a","m","e">>), JNull)>>,
                  <<JStr(<<"a","f","f","i","l","i","a","t","e","T","a","g">>), JStr(get_affiliate_tag(retailer))>>,
                  <<JStr(<<"p","r","i","o","r","i","t","y">>), JNum(link_priority(priority_index))>> >>
             with_rating == copy_optional(v1_link, link[2], JStr(<<"a","v","e","r","a","g","e","R","a","t","i","n","g">>))
             with_count == copy_optional(with_rating, link[2], JStr(<<"r","e","v","i","e","w","C","o","u","n","t">>))
             has_badge == present_not_none(link[2], JStr(<<"b","a","d","g","e">>))
             badge == normalize_badge(dict_get(link[2], JStr(<<"b","a","d","g","e">>), JNull))
         IN  IF has_badge /\ ~badge.ok
             THEN Raise(badge.err)
             ELSE IF has_badge
             THEN Ok(JDict(dict_set(with_count, JStr(<<"b","a","d","g","e">>), badge.val)))
             ELSE Ok(JDict(with_count))

\* [convert_link(link, idx) for idx, link in enumerate(affiliate_links)]
convert_links(affiliate_links) ==
  Let1([i \in 1..Len(affiliate_links) |-> convert_link(affiliate_links[i], i - 1)],
       LAMBDA r :
         IF \E i \in 1..Len(r) : ~r[i].ok
         THEN Raise(r[CHOOSE i \in 1..Len(r) :
                        ~r[i].ok /\ \A j \in 1..(i - 1) : r[j].ok].err)
         ELSE Ok([i \in 1..Len(r) |-> r[i].val]))

\* returns the tuple <<item_id, v1_item>>
convert_item(item) ==
  Let1(py_getitem(item, JStr(<<"i","d">>)), LAMBDA item_id :
    IF ~item_id.ok
    THEN Raise(item_id.err)
    ELSE Let1(py_iter(dict_get(item[2], JStr(<<"a","f","f","i","l","i","a","t","e","L","i","n","k","s">>), JList(<<>>))),
              LAMBDA affiliate_links :
           IF ~affiliate_links.ok
           THEN Raise(affiliate_links.err)
           ELSE Let1(convert_links(affiliate_links.val), LAMBDA v1_links :
                  IF ~v1_links.ok
                  THEN Raise(v1_links.err)
                  ELSE Ok(<<item_id.val,
                            JDict(<< <<JStr(<<"i","t","e","m","V","e","r","s","i","o","n">>), JNum(1)>>,
                                     <<JStr(<<"l","i","n","k","s">>), JList(v1_links.val)>> >>)>>))))

\* a list or a dict cannot be a dict key
hashable(x) == x[1] \notin {"list", "dict"}

\* store_item as items_dict.setdefault(item_id, item_config), the first item
\* of an id winning: what C6's formula must tell apart
store_item_keep_first(items_dict, item_id, item_config) ==
  IF dict_has(items_dict, item_id)
  THEN items_dict
  ELSE dict_set(items_dict, item_id, item_config)

\* items_dict[item_id] = item_config
store_item(items_dict, item_id, item_config) ==
  dict_set(items_dict, item_id, item_config)

\* the loop of convert_category over items_array[i..], items_dict so far
RECURSIVE convert_items(_, _, _)
convert_items(items_array, i, items_dict) ==
  IF i > Len(items_array)
  THEN Ok(items_dict)
  ELSE Let1(convert_item(items_array[i]), LAMBDA item :
         IF ~item.ok
         THEN Raise(item.err)
         ELSE IF ~hashable(item.val[1])
         THEN Raise("TypeError")
         ELSE Let1(store_item(items_dict, item.val[1], item.val[2]),
                   LAMBDA stored : convert_items(items_array, i + 1, stored)))

convert_category(v2_data) ==
  Let1(py_getitem(v2_data, JStr(<<"i","d">>)), LAMBDA category_id :
    IF ~category_id.ok
    THEN Raise(category_id.err)
    ELSE Let1(py_iter(dict_get(v2_data[2], JStr(<<"i","t","e","m","s">>), JList(<<>>))),
              LAMBDA items_array :
           IF ~items_array.ok
           THEN Raise(items_array.err)
           ELSE Let1(convert_items(items_array.val, 1, <<>>), LAMBDA items_dict :
                  IF ~items_dict.ok
                  THEN Raise(items_dict.err)
                  ELSE Ok(JDict(<< <<JStr(<<"c","a","t","e","g","o","r","y","I","d">>), category_id.val>>,
                                   <<JStr(<<"v","e","r","s","i","o","n">>), JNum(VERSION)>>,
                                   <<JStr(<<"l","a","s","t","U","p","d","a","t","e","d">>), JStr(TODAY)>>,
                                   <<JStr(<<"i","t","e","m","s">>), JDict(items_dict.val)>> >>)))))

(***************************************************************************)
(* json.loads.  The text of a file is its sequence of lexical tokens:      *)
(* punctuation, string / number / null literals, runs of whitespace ("ws") *)
(* and text that is no JSON token ("junk").                                *)
(***************************************************************************)
Tok(k) == <<k>>

TStr(s) == <<"str", s>>

TNum(n) == <<"num", n>>

ParseError == [ok |-> FALSE]

Parsed(val, pos) == [ok |-> TRUE, val |-> val, pos |-> pos]

RECURSIVE parse_value(_, _)
RECURSIVE parse_members(_, _, _)
RECURSIVE parse_elements(_, _, _)

\* the value that starts at toks[i] and the position after it
parse_value(toks, i) ==
  IF i > Len(toks)
  THEN ParseError
  ELSE CASE toks[i][1] = "str"  -> Parsed(JStr(toks[i][2]), i + 1)
         [] toks[i][1] = "num"  -> Parsed(JNum(toks[i][2]), i + 1)
         [] toks[i][1] = "null" -> Parsed(JNull, i + 1)
         [] toks[i][1] = "{"    ->
              IF i + 1 <= Len(toks) /\ toks[i + 1][1] = "}"
              THEN Parsed(JDict(<<>>), i + 2)
              ELSE parse_members(toks, i + 1, <<>>)
         [] toks[i][1] = "["    ->
              IF i + 1 <= Len(toks) /\ toks[i + 1][1] = "]"
              THEN Parsed(JList(<<>>), i + 2)
              ELSE parse_elements(toks, i + 1, <<>>)
         [] OTHER              -> ParseError

\* "key": value pairs from toks[i] up to the closing brace; a repeated key
\* keeps its first position and takes the last value
parse_members(toks, i, d) ==
  IF i + 1 > Len(toks) \/ toks[i][1] # "str" \/ toks[i + 1][1] # ":"
  THEN ParseError
  ELSE Let1(parse_value(toks, i + 2), LAMBDA m :
         IF ~m.ok
         THEN ParseError
         ELSE IF m.pos > Len(toks)
         THEN ParseError
         ELSE IF toks[m.pos][1] = "}"
         THEN Parsed(JDict(dict_set(d, JStr(toks[i][2]), m.val)), m.pos + 1)
         ELSE IF toks[m.pos][1] = ","
         THEN parse_members(toks, m.pos + 1, dict_set(d, JStr(toks[i][2]), m.val))
         ELSE ParseError)

parse_elements(toks, i, xs) ==
  Let1(parse_value(toks, i), LAMBDA e :
    IF ~e.ok
    THEN ParseError
    ELSE IF e.pos > Len(toks)
    THEN ParseError
    ELSE IF toks[e.pos][1] = "]"
    THEN Parsed(JList(Append(xs, e.val)), e.pos + 1)
    ELSE IF toks[e.pos][1] = ","
    THEN parse_elements(toks, e.pos + 1, Append(xs, e.val))
    ELSE ParseError)

is_ws(tok) == tok[1] = "ws"

not_ws(tok) == ~is_ws(tok)

\* one value, whitespace skipped, nothing after it
json_loads(content) ==
  Let1(SelectSeq(content, not_ws), LAMBDA toks :
    Let1(parse_value(toks, 1), LAMBDA r :
      IF r.ok /\ r.pos = Len(toks) + 1
      THEN Ok(r.val)
      ELSE Raise("JSONDecodeError")))

\* f.read().strip()
RECURSIVE content_lstrip(_)
content_lstrip(content) ==
  IF Len(content) > 0 /\ is_ws(Head(content))
  THEN content_lstrip(Tail(content))
  ELSE content

RECURSIVE content_rstrip(_)
content_rstrip(content) ==
  IF Len(content) > 0 /\ is_ws(content[Len(content)])
  THEN content_rstrip(SubSeq(content, 1, Len(content) - 1))
  ELSE content

content_strip(content) == content_rstrip(content_lstrip(content))

\* content.startswith('"')
starts_with_quote(content) == Len(content) > 0 /\ content[1][1] = "str"

(***************************************************************************)
(* json.dump to a file opened with encoding='utf-8', ensure_ascii=False    *)
(***************************************************************************)
\* what json.loads makes of the escape \ud800: a lone surrogate, one character
LONE_SURROGATE == "U+D800"

RECURSIVE utf8_encodable(_)
utf8_encodable(x) ==
  CASE x[1] = "str"  -> \A i \in 1..Len(x[2]) : x[2][i] # LONE_SURROGATE
    [] x[1] = "list" -> \A i \in 1..Len(x[2]) : utf8_encodable(x[2][i])
    [] x[1] = "dict" ->
         \A i \in 1..Len(x[2]) : utf8_encodable(x[2][i][1]) /\ utf8_encodable(x[2][i][2])
    [] OTHER        -> TRUE

\* the state of the output path after open(output_path, 'w') and json.dump:
\* the whole document, or what was written before the encoder raised
json_dump(v1_data) ==
  IF utf8_encodable(v1_data)
  THEN Ok([kind |-> "complete", data |-> v1_data])
  ELSE [ok |-> FALSE, err |-> "UnicodeEncodeError", val |-> [kind |-> "partial"]]

(***************************************************************************)
(* convert_file                                                            *)
(***************************************************************************)
\* id_not_in with the test dropped, the key always injected: what C10's
\* formula must tell apart
id_always_missing(v2_data) ==
  IF v2_data[1] \in {"dict", "list", "str"} THEN Ok(TRUE) ELSE Raise("TypeError")

\* 'id' not in v2_data
id_not_in(v2_data) ==
  CASE v2_data[1] = "dict" -> Ok(~dict_has(v2_data[2], JStr(<<"i","d">>)))
    [] v2_data[1] = "list" -> Ok(\A i \in 1..Len(v2_data[2]) : v2_data[2][i] # JStr(<<"i","d">>))
    [] v2_data[1] = "str"  -> Ok(~str_contains(v2_data[2], <<"i","d">>))
    [] OTHER              -> Raise("TypeError")

\* v2_data['id'] = category_key
set_id(v2_data, category_key) ==
  IF v2_data[1] = "dict"
  THEN Ok(JDict(dict_set(v2_data[2], JStr(<<"i","d">>), category_key)))
  ELSE Raise("TypeError")

\* the fragment branch: "key": {...} wrapped in braces
load_fragment(content) ==
  Let1(json_loads(<<Tok("{")>> \o content \o <<Tok("}")>>), LAMBDA wrapped_data :
    IF ~wrapped_data.ok
    THEN Raise(wrapped_data.err)
    ELSE LET category_key == dict_keys(wrapped_data.val[2])[1]
             v2_data == dict_get(wrapped_data.val[2], category_key, JNull)
             missing == id_not_in(v2_data)
         IN  IF ~missing.ok
             THEN Raise(missing.err)
             ELSE IF missing.val
             THEN set_id(v2_data, category_key)
             ELSE Ok(v2_data))

\* the parse stage of convert_file
load_v2(raw) ==
  Let1(content_strip(raw), LAMBDA content :
    IF starts_with_quote(content)
    THEN load_fragment(content)
    ELSE json_loads(content))

NothingWritten == [kind |-> "none"]

\* ret: the value convert_file returns; out: what it did to the output path
convert_file(raw) ==
  Let1(load_v2(raw), LAMBDA v2_data :
    IF ~v2_data.ok
    THEN [ret |-> FALSE, err |-> v2_data.err, out |-> NothingWritten]
    ELSE Let1(convert_category(v2_data.val), LAMBDA v1_data :
           IF ~v1_data.ok
           THEN [ret |-> FALSE, err |-> v1_data.err, out |-> NothingWritten]
           ELSE Let1(json_dump(v1_data.val), LAMBDA written :
                  [ret |-> written.ok,
                   err |-> IF written.ok THEN "none" ELSE written.err,
                   out |-> written.val])))

(***************************************************************************)
(* main: the batch driver                                                  *)
(***************************************************************************)
\* the characters of the model in code-point order
CodePoints ==
  <<"\t", "\n", " ", "&", "+", "-", ".",
    "0", "1", "2", "3", "4", "5", "6", "7", "8", "9">>
  \o UpperChars \o <<"_">> \o LowerChars

code_point(c) == CHOOSE i \in 1..Len(CodePoints) : CodePoints[i] = c

\* a < b for two str
RECURSIVE str_less(_, _)
str_less(a, b) ==
  IF Len(b) = 0 THEN FALSE
  ELSE IF Len(a) = 0 THEN TRUE
  ELSE IF Head(a) = Head(b) THEN str_less(Tail(a), Tail(b))
  ELSE code_point(Head(a)) < code_point(Head(b))

\* sorted(names), names a set of str
RECURSIVE sorted(_)
sorted(names) ==
  IF names = {}
  THEN <<>>
  ELSE LET least == CHOOSE n \in names : \A m \in names \ {n} : str_less(n, m)
       IN  <<least>> \o sorted(names \ {least})

\* whether a file name matches the pattern *.json
matches_json(name) ==
  Len(name) >= 5 /\ SubSeq(name, Len(name) - 4, Len(name)) = <<".","j","s","o","n">>

\* v2_dir.glob("*.json")
glob_json(files) == {name \in DOMAIN files : matches_json(name)}

NoFiles == [name \in {} |-> NothingWritten]

\* the files of a directory after name is (over)written with content
put_file(files, name, content) ==
  [n \in DOMAIN files \cup {name} |-> IF n = name THEN content ELSE files[n]]

\* summary_status that forgets the failures: what C1's formula must tell apart
summary_status_always_zero(failed) == 0

\* 0 if fail_count == 0 else 1
summary_status(failed) == IF failed = 0 THEN 0 ELSE 1

\* CheckV2Dir with the mkdir moved before the test: what C9's formula must
\* tell apart
CheckV2DirAfterMkdir ==
  /\ pc = "start"
  /\ v1' = IF v1.exists THEN v1 ELSE [exists |-> TRUE, files |-> NoFiles]
  /\ IF ~v2.exists
     THEN /\ exit_status' = <<1>>
          /\ pc' = "done"
     ELSE /\ pc' = "mkdir"
          /\ UNCHANGED exit_status
  /\ UNCHANGED <<v2, v1_at_start, v2_files, next_file, success_count,
                 fail_count, calls, call_vars>>

\* if not v2_dir.exists(): return 1
CheckV2Dir ==
  /\ pc = "start"
  /\ IF ~v2.exists
     THEN /\ exit_status' = <<1>>
          /\ pc' = "done"
     ELSE /\ pc' = "mkdir"
          /\ UNCHANGED exit_status
  /\ UNCHANGED <<v2, v1, v1_at_start, v2_files, next_file, success_count,
                 fail_count, calls, call_vars>>

\* v1_dir.mkdir(exist_ok=True)
MkdirV1 ==
  /\ pc = "mkdir"
  /\ v1' = IF v1.exists THEN v1 ELSE [exists |-> TRUE, files |-> NoFiles]
  /\ pc' = "glob"
  /\ UNCHANGED <<v2, v1_at_start, v2_files, next_file, success_count,
                 fail_count, exit_status, calls, call_vars>>

\* v2_files = sorted(v2_dir.glob("*.json")); if not v2_files: return 1
GlobV2 ==
  /\ pc = "glob"
  /\ v2_files' = sorted(glob_json(v2.files))
  /\ IF v2_files' = <<>>
     THEN /\ exit_status' = <<1>>
          /\ pc' = "done"
     ELSE /\ pc' = "loop"
          /\ UNCHANGED exit_status
  /\ success_count' = 0
  /\ fail_count' = 0
  /\ next_file' = 1
  /\ UNCHANGED <<v2, v1, v1_at_start, calls, call_vars>>

\* ConvertNextFile with no error boundary, a failure ending the loop: what
\* C2's formula must tell apart
ConvertNextFileStopsOnFailure ==
  /\ pc = "loop"
  /\ next_file <= Len(v2_files)
  /\ \E name \in {v2_files[next_file]} :
       \E r \in {convert_file(v2.files[name])} :
         /\ v1' = IF r.out = NothingWritten
                  THEN v1
                  ELSE [v1 EXCEPT !.files = put_file(v1.files, name, r.out)]
         /\ IF r.ret
            THEN success_count' = success_count + 1 /\ UNCHANGED fail_count
            ELSE fail_count' = fail_count + 1 /\ UNCHANGED success_count
         /\ calls' = Append(calls, [name |-> name, ret |-> r.ret, err |-> r.err])
         /\ next_file' = IF r.ret THEN next_file + 1 ELSE Len(v2_files) + 1
  /\ UNCHANGED <<pc, v2, v1_at_start, v2_files, exit_status, call_vars>>

\* one iteration of the loop: convert_file(v2_file, v1_file) and the counters
ConvertNextFile ==
  /\ pc = "loop"
  /\ next_file <= Len(v2_files)
  /\ \E name \in {v2_files[next_file]} :
       \E r \in {convert_file(v2.files[name])} :
         /\ v1' = IF r.out = NothingWritten
                  THEN v1
                  ELSE [v1 EXCEPT !.files = put_file(v1.files, name, r.out)]
         /\ IF r.ret
            THEN success_count' = success_count + 1 /\ UNCHANGED fail_count
            ELSE fail_count' = fail_count + 1 /\ UNCHANGED success_count
         /\ calls' = Append(calls, [name |-> name, ret |-> r.ret, err |-> r.err])
  /\ next_file' = next_file + 1
  /\ UNCHANGED <<pc, v2, v1_at_start, v2_files, exit_status, call_vars>>

\* the summary and return 0 if fail_count == 0 else 1
Summary ==
  /\ pc = "loop"
  /\ next_file > Len(v2_files)
  /\ exit_status' = <<summary_status(fail_count)>>
  /\ pc' = "done"
  /\ UNCHANGED <<v2, v1, v1_at_start, v2_files, next_file, success_count,
                 fail_count, calls, call_vars>>

(***************************************************************************)
(* Inputs                                                                  *)
(***************************************************************************)
MaxLinks == 3

MaxItems == 3

MaxFiles == 2

SeqsUpTo(S, n) == UNION {[1..k -> S] : k \in 0..n}

\* a key that the source object does not have
Absent == <<"absent">>

is_present(pair) == pair[2] # Absent

\* the JSON object with the given members, the absent ones left out
Obj(pairs) == JDict(SelectSeq(pairs, is_present))

str_capitalize(s) == [i \in 1..Len(s) |-> IF i = 1 THEN upper_char(s[i]) ELSE s[i]]

Spellings(s) ==
  {s, str_upper(s), str_capitalize(s), <<" ">> \o s \o <<"\t">>,
   <<"\n">> \o str_upper(s) \o <<" ", " ">>}

TableKeys == {BADGE_MAPPING[i][1] : i \in 1..Len(BADGE_MAPPING)}

UnknownBadges == {<<"e","x","t","r","a"," ","s","o","f","t">>, <<"n","e","w">>, <<"d","o","r","m","-","r","e","a","d","y"," ","d","e","a","l">>, <<"t","o","p"," ","r","a","t","e","d">>}

BadgeInputs ==
  UNION {Spellings(k) : k \in TableKeys \cup UnknownBadges} \cup {<<>>, <<" ">>}

RetailerWords ==
  {<<"a","m","a","z","o","n">>, <<"a","m","a","z","o","n"," ","f","r","e","s","h">>, <<"a","m","a","z","o","n",".","c","o","m">>, <<"w","a","l","m","a","r","t">>, <<"t","a","r","g","e","t">>,
   <<"w","a","l","m","a","r","t"," ","t","a","r","g","e","t">>, <<"t","a","r","g","e","t"," ","b","y"," ","a","m","a","z","o","n">>, <<"i","k","e","a">>, <<"a","m","a","z","o">>, <<"b","e","s","t"," ","b","u","y">>,
   <<>>}

RetailerInputs == UNION {Spellings(w) : w \in RetailerWords}

LinkInputs ==
  {Obj(<< <<JStr(<<"r","e","t","a","i","l","e","r">>), retailer>>, <<JStr(<<"u","r","l">>), url>>,
          <<JStr(<<"d","i","s","p","l","a","y","N","a","m","e">>), displayName>>, <<JStr(<<"a","v","e","r","a","g","e","R","a","t","i","n","g">>), averageRating>>,
          <<JStr(<<"r","e","v","i","e","w","C","o","u","n","t">>), reviewCount>>, <<JStr(<<"b","a","d","g","e">>), badge>> >>) :
     retailer \in {Absent, JStr(<<"A","m","a","z","o","n">>), JStr(<<" ","w","a","l","m","a","r","t"," ">>)},
     url \in {Absent, JStr(<<"h","t","t","p",":","/","/","x">>)},
     displayName \in {Absent, JNull, JStr(<<"S","h","e","e","t","s">>)},
     averageRating \in {Absent, JNull, JNum(4), JNum(0)},
     reviewCount \in {Absent, JNull, JNum(400)},
     badge \in {Absent, JNull, JStr(<<>>), JStr(<<" ">>), JStr(<<"T","o","p","-","R","a","t","e","d">>),
                JStr(<<"E","x","t","r","a"," ","S","o","f","t">>)}}

LinkAmazon ==
  Obj(<< <<JStr(<<"r","e","t","a","i","l","e","r">>), JStr(<<"A","m","a","z","o","n">>)>>, <<JStr(<<"u","r","l">>), JStr(<<"h","t","t","p",":","/","/","a">>)>>,
         <<JStr(<<"a","v","e","r","a","g","e","R","a","t","i","n","g">>), JNum(3)>>, <<JStr(<<"r","e","v","i","e","w","C","o","u","n","t">>), JNum(400)>>,
         <<JStr(<<"b","a","d","g","e">>), JStr(<<"b","u","d","g","e","t"," ","b","e","s","t","-","s","e","l","l","e","r">>)>> >>)

LinkWalmart ==
  Obj(<< <<JStr(<<"r","e","t","a","i","l","e","r">>), JStr(<<" ","W","a","l","m","a","r","t"," ">>)>>, <<JStr(<<"u","r","l">>), JStr(<<"h","t","t","p",":","/","/","w">>)>>,
         <<JStr(<<"d","i","s","p","l","a","y","N","a","m","e">>), JStr(<<"L","a","m","p">>)>>, <<JStr(<<"a","v","e","r","a","g","e","R","a","t","i","n","g">>), JNum(5)>>,
         <<JStr(<<"r","e","v","i","e","w","C","o","u","n","t">>), JNull>> >>)

LinkTarget ==
  Obj(<< <<JStr(<<"r","e","t","a","i","l","e","r">>), JStr(<<"T","a","r","g","e","t">>)>>, <<JStr(<<"u","r","l">>), JStr(<<"h","t","t","p",":","/","/","t">>)>>,
         <<JStr(<<"d","i","s","p","l","a","y","N","a","m","e">>), JNull>>, <<JStr(<<"b","a","d","g","e">>), JStr(<<"E","x","t","r","a"," ","S","o","f","t">>)>> >>)

LinkNoUrl ==
  Obj(<< <<JStr(<<"r","e","t","a","i","l","e","r">>), JStr(<<"T","a","r","g","e","t">>)>>, <<JStr(<<"d","i","s","p","l","a","y","N","a","m","e">>), JStr(<<"D","e","s","k">>)>>,
         <<JStr(<<"a","v","e","r","a","g","e","R","a","t","i","n","g">>), JNum(5)>> >>)

LinkSurrogate ==
  Obj(<< <<JStr(<<"r","e","t","a","i","l","e","r">>), JStr(<<"i","k","e","a">>)>>, <<JStr(<<"u","r","l">>), JStr(<<"x", LONE_SURROGATE>>)>> >>)

LinkPool == {LinkAmazon, LinkWalmart, LinkTarget, LinkNoUrl}

Item(id, links) ==
  Obj(<< <<JStr(<<"i","d">>), id>>, <<JStr(<<"n","a","m","e">>), JStr(<<"n">>)>>, <<JStr(<<"a","f","f","i","l","i","a","t","e","L","i","n","k","s">>), links>> >>)

ItemInputs ==
  {Item(id, links) :
     id \in {Absent, JStr(<<"l","a","m","p">>)},
     links \in {Absent} \cup {JList(s) : s \in SeqsUpTo(LinkPool, MaxLinks)}}

ItemLamp == Item(JStr(<<"l","a","m","p">>), JList(<<LinkAmazon, LinkWalmart>>))

ItemLampAgain == Item(JStr(<<"l","a","m","p">>), JList(<<LinkTarget>>))

ItemDesk == Item(JStr(<<"d","e","s","k">>), JList(<<LinkWalmart>>))

ItemNoId == Item(Absent, JList(<<LinkAmazon>>))

ItemNoUrl == Item(JStr(<<"d","e","s","k">>), JList(<<LinkAmazon, LinkNoUrl, LinkWalmart>>))

ItemBare == Item(JStr(<<"r","u","g">>), Absent)

ItemSurrogate == Item(JStr(<<"r","u","g">>), JList(<<LinkAmazon, LinkSurrogate>>))

ItemPool == {ItemLamp, ItemLampAgain, ItemDesk, ItemNoId, ItemNoUrl, ItemBare}

Category(id, items) ==
  Obj(<< <<JStr(<<"i","d">>), id>>, <<JStr(<<"l","a","b","e","l">>), JStr(<<"B","e","d","d","i","n","g"," ","&"," ","S","l","e","e","p">>)>>, <<JStr(<<"i","t","e","m","s">>), items>> >>)

CategoryInputs ==
  {Category(id, items) :
     id \in {Absent, JStr(<<"b","e","d","d","i","n","g">>)},
     items \in {Absent} \cup {JList(s) : s \in SeqsUpTo(ItemPool, MaxItems)}}

\* the text of a JSON value, as tokens
RECURSIVE json_tokens(_)
RECURSIVE member_tokens(_, _)
RECURSIVE element_tokens(_, _)
json_tokens(x) ==
  CASE x[1] = "null" -> <<Tok("null")>>
    [] x[1] = "num"  -> <<TNum(x[2])>>
    [] x[1] = "str"  -> <<TStr(x[2])>>
    [] x[1] = "list" -> <<Tok("[")>> \o element_tokens(x[2], 1) \o <<Tok("]")>>
    [] x[1] = "dict" -> <<Tok("{")>> \o member_tokens(x[2], 1) \o <<Tok("}")>>

member_tokens(d, i) ==
  IF i > Len(d)
  THEN <<>>
  ELSE <<TStr(d[i][1][2]), Tok(":")>> \o json_tokens(d[i][2])
       \o (IF i < Len(d) THEN <<Tok(",")>> ELSE <<>>)
       \o member_tokens(d, i + 1)

element_tokens(xs, i) ==
  IF i > Len(xs)
  THEN <<>>
  ELSE json_tokens(xs[i])
       \o (IF i < Len(xs) THEN <<Tok(",")>> ELSE <<>>)
       \o element_tokens(xs, i + 1)

\* an input file: a standalone object, or a bare "key": value fragment, or
\* text that is given token by token
ObjectDoc(value) == [shape |-> "object", value |-> value]

FragmentDoc(key, value) == [shape |-> "fragment", key |-> key, value |-> value]

TextDoc(tokens) == [shape |-> "text", tokens |-> tokens]

\* the text of an input file, with whitespace around it
file_text(doc) ==
  CASE doc.shape = "object"   ->
         <<Tok("ws")>> \o json_tokens(doc.value) \o <<Tok("ws")>>
    [] doc.shape = "fragment" ->
         <<Tok("ws"), TStr(doc.key), Tok("ws"), Tok(":")>>
         \o json_tokens(doc.value) \o <<Tok("ws")>>
    [] doc.shape = "text"     -> doc.tokens

GoodCategory == Category(JStr(<<"b","e","d","d","i","n","g">>), JList(<<ItemLamp, ItemDesk>>))

SmallCategory == Category(JStr(<<"b","a","t","h">>), JList(<<ItemDesk>>))

Docs ==
  { ObjectDoc(GoodCategory),
    ObjectDoc(Category(Absent, JList(<<ItemDesk>>))),
    ObjectDoc(Category(JStr(<<"b","a","t","h">>), JList(<<ItemDesk, ItemNoId>>))),
    ObjectDoc(Category(JStr(<<"b","a","t","h">>), JList(<<ItemDesk, ItemNoUrl, ItemBare>>))),
    ObjectDoc(Category(JStr(<<"b","a","t","h">>), JList(<<ItemDesk, ItemSurrogate>>))),
    ObjectDoc(JList(<<SmallCategory>>)),
    FragmentDoc(<<"b","e","d","d","i","n","g","_","s","l","e","e","p">>, Category(Absent, JList(<<ItemDesk, ItemBare>>))),
    FragmentDoc(<<"s","t","o","r","a","g","e">>, Category(JStr(<<"o","w","n","_","i","d">>), JList(<<ItemDesk>>))),
    FragmentDoc(<<"s","t","o","r","a","g","e">>, Category(JNull, JList(<<>>))),
    FragmentDoc(<<"s","t","o","r","a","g","e">>, Category(Absent, JList(<<ItemNoUrl>>))),
    FragmentDoc(<<"s","t","o","r","a","g","e">>, JNum(5)),
    TextDoc(SubSeq(json_tokens(SmallCategory), 1, Len(json_tokens(SmallCategory)) - 1)),
    TextDoc(<<TStr(<<"s","t","o","r","a","g","e">>), Tok(":")>> \o json_tokens(Category(Absent, Absent))
            \o <<Tok(","), TStr(<<"b","a","t","h">>), Tok(":")>> \o json_tokens(SmallCategory)),
    TextDoc(json_tokens(SmallCategory) \o <<Tok("junk")>>),
    TextDoc(<<Tok("ws")>>) }

DocTexts == [doc \in Docs |-> file_text(doc)]

FileTexts == {DocTexts[doc] : doc \in Docs}

\* file names; the ones that match *.json come first
NamePool == <<<<"b",".","j","s","o","n">>, <<"B",".","j","s","o","n">>, <<"a",".","j","s","o","n">>, <<"a","b",".","j","s","o","n">>>>

JsonNames == {NamePool[i] : i \in 1..MaxFiles}

OtherNames == {<<"n","o","t","e","s",".","t","x","t">>, <<"j","s","o","n">>}

\* an output file left by an earlier run
StaleOutput == [kind |-> "complete", data |-> JDict(<<>>)]

\* the content of a file that is no input
OtherText == <<Tok("junk")>>

V2Dirs ==
  {[exists |-> FALSE, files |-> NoFiles]}
  \cup {[exists |-> TRUE,
          files |-> [name \in DOMAIN texts \cup O |->
                       IF name \in O THEN OtherText ELSE texts[name]]] :
          texts \in UNION {[J -> FileTexts] : J \in SUBSET JsonNames},
          O \in {{}, OtherNames}}

V1Dirs ==
  {[exists |-> FALSE, files |-> NoFiles],
   [exists |-> TRUE, files |-> NoFiles],
   [exists |-> TRUE, files |-> [name \in JsonNames |-> StaleOutput]]}

(***************************************************************************)
(* Specifications                                                          *)
(***************************************************************************)
\* one run of main() on a file system
Init ==
  /\ pc = "start"
  /\ v2 \in V2Dirs
  /\ v1 \in V1Dirs
  /\ v1_at_start = v1
  /\ v2_files = <<>>
  /\ next_file = 1
  /\ success_count = 0
  /\ fail_count = 0
  /\ exit_status = <<>>
  /\ calls = <<>>
  /\ fn = "none"
  /\ arg = <<>>
  /\ res = <<>>

Next ==
  \/ CheckV2Dir
  \/ MkdirV1
  \/ GlobV2
  \/ ConvertNextFile
  \/ Summary

Spec == Init /\ [][Next]_vars

\* one call of one converter function
ConvInit ==
  /\ pc = "imported"
  /\ v2 = [exists |-> FALSE, files |-> NoFiles]
  /\ v1 = [exists |-> FALSE, files |-> NoFiles]
  /\ v1_at_start = v1
  /\ v2_files = <<>>
  /\ next_file = 1
  /\ success_count = 0
  /\ fail_count = 0
  /\ exit_status = <<>>
  /\ calls = <<>>
  /\ res = <<>>
  /\ \/ fn = "normalize_retailer" /\ arg \in RetailerInputs
     \/ fn = "normalize_badge" /\ arg \in BadgeInputs
     \/ fn = "get_affiliate_tag" /\ arg \in RetailerInputs
     \/ fn = "convert_link" /\ arg \in LinkInputs \X (0..(MaxLinks - 1))
     \/ fn = "convert_item" /\ arg \in ItemInputs
     \/ fn = "convert_category" /\ arg \in CategoryInputs

CallNormalizeRetailer ==
  /\ fn = "normalize_retailer"
  /\ res = <<>>
  /\ res' = <<normalize_retailer(arg)>>
  /\ UNCHANGED <<driver_vars, fn, arg>>

CallNormalizeBadge ==
  /\ fn = "normalize_badge"
  /\ res = <<>>
  /\ res' = <<normalize_badge(JStr(arg))>>
  /\ UNCHANGED <<driver_vars, fn, arg>>

CallGetAffiliateTag ==
  /\ fn = "get_affiliate_tag"
  /\ res = <<>>
  /\ res' = <<get_affiliate_tag(arg)>>
  /\ UNCHANGED <<driver_vars, fn, arg>>

CallConvertLink ==
  /\ fn = "convert_link"
  /\ res = <<>>
  /\ res' = <<convert_link(arg[1], arg[2])>>
  /\ UNCHANGED <<driver_vars, fn, arg>>

CallConvertItem ==
  /\ fn = "convert_item"
  /\ res = <<>>
  /\ res' = <<convert_item(arg)>>
  /\ UNCHANGED <<driver_vars, fn, arg>>

CallConvertCategory ==
  /\ fn = "convert_category"
  /\ res = <<>>
  /\ res' = <<convert_category(arg)>>
  /\ UNCHANGED <<driver_vars, fn, arg>>

ConvNext ==
  \/ CallNormalizeRetailer
  \/ CallNormalizeBadge
  \/ CallGetAffiliateTag
  \/ CallConvertLink
  \/ CallConvertItem
  \/ CallConvertCategory

ConvSpec == ConvInit /\ [][ConvNext]_vars

(***************************************************************************)
(* Properties of the batch driver (Spec)                                   *)
(***************************************************************************)
\* the input files a run has to convert
Discovered == IF v2.exists THEN DOMAIN v2.files \cap JsonNames ELSE {}

\* whether convert_file fails on the input file name
FailsToConvert(name) == ~convert_file(v2.files[name]).ret

\* the categoryId of the document written for name
WrittenCategoryId(name) ==
  dict_get(v1.files[name].data[2], JStr(<<"c","a","t","e","g","o","r","y","I","d">>), Absent)

\* C1: main() returns 1 if v2/ is missing, or holds no *.json file, or
\* convert_file returned False for a discovered file; otherwise it returns 0.
C1_ExitStatus ==
  pc = "done" =>
    IF \/ ~v2.exists
       \/ Discovered = {}
       \/ \E name \in Discovered : FailsToConvert(name)
    THEN exit_status = <<1>>
    ELSE /\ exit_status = <<0>>
         /\ \A name \in Discovered : \E i \in 1..Len(calls) :
              calls[i].name = name /\ calls[i].ret

C1_Witness ==
  /\ pc = "done"
  /\ exit_status = <<0>>
  /\ Cardinality(Discovered) >= 2
  /\ DOMAIN v2.files # Discovered

\* C2: every discovered file is passed to convert_file exactly once, in
\* sorted file-name order, whether or not earlier files failed; when the loop
\* ends success_count + fail_count is the number of discovered files and
\* fail_count the number of files whose conversion failed.
C2_FaultIsolation ==
  /\ \A i \in 1..Len(calls) :
       /\ calls[i].name \in Discovered
       /\ \A j \in 1..(i - 1) : str_less(calls[j].name, calls[i].name)
       /\ \A name \in Discovered :
            str_less(name, calls[i].name) =>
              \E j \in 1..(i - 1) : calls[j].name = name
  /\ pc \in {"loop", "done"} =>
       /\ success_count + fail_count = Len(calls)
       /\ fail_count = Cardinality({i \in 1..Len(calls) : ~calls[i].ret})
  /\ pc = "done" /\ Discovered # {} =>
       /\ Len(calls) = Cardinality(Discovered)
       /\ \A i \in 1..Len(calls) : calls[i].ret = ~FailsToConvert(calls[i].name)
       /\ success_count + fail_count = Cardinality(Discovered)
       /\ fail_count = Cardinality({name \in Discovered : FailsToConvert(name)})

C2_Witness ==
  /\ pc = "done"
  /\ Len(calls) >= 2
  /\ ~calls[1].ret
  /\ calls[2].ret
  /\ calls[2].name \in DOMAIN v1.files

\* C8: a file on which convert_file fails leaves its output path as it was
\* (nothing written, an output of an earlier run unchanged), and a file on
\* which convert_file returns True has its output in v1/.
C8_FailedFileWritesNothing ==
  \A i \in 1..Len(calls) :
    LET name == calls[i].name
    IN  IF calls[i].ret
        THEN name \in DOMAIN v1.files /\ v1.files[name].kind = "complete"
        ELSE /\ name \in DOMAIN v1.files <=> name \in DOMAIN v1_at_start.files
             /\ name \in DOMAIN v1.files =>
                  v1.files[name] = v1_at_start.files[name]

\* C9 as stated: when main() returns 1 because v2/ is missing or holds no
\* *.json file, the file system is as it was (v1/ is not created).
C9_EarlyExitLeavesNoTrace ==
  pc = "done" /\ (~v2.exists \/ Discovered = {}) => v1 = v1_at_start

\* C9 as amended: v1/ is created, if absent, once v2/ is found to exist and
\* before the *.json files are looked for.  A run that ends because v2/ is
\* missing leaves the file system as it was; a run that ends because v2/
\* holds no *.json file leaves v1/ existing, with the files it had.
C9_OutputDirCreatedBeforeGlob ==
  /\ pc \in {"start", "mkdir"} => v1 = v1_at_start
  /\ pc \in {"glob", "loop"} => v1.exists
  /\ pc = "done" /\ ~v2.exists => v1 = v1_at_start
  /\ pc = "done" /\ v2.exists => v1.exists
  /\ pc = "done" /\ v2.exists /\ Discovered = {} =>
       v1 = [exists |-> TRUE, files |-> v1_at_start.files]

C9_Witness ==
  /\ pc = "done"
  /\ v2.exists
  /\ Discovered = {}
  /\ exit_status = <<1>>
  /\ ~v1_at_start.exists
  /\ v1.exists

\* the documents an input file can be the text of
DocsOf(text) == {doc \in Docs : DocTexts[doc] = text}

HasId(value) == value[1] = "dict" /\ dict_has(value[2], JStr(<<"i","d">>))

\* C10: a file that starts with a double quote is read as a fragment; its
\* categoryId is the fragment's key when the value has no id, and the value's
\* own id when it has one.  Any other file is read as it is; its categoryId is
\* the object's id, and without an id the file fails.
C10_TwoShapes ==
  \A i \in 1..Len(calls) : \A doc \in DocsOf(v2.files[calls[i].name]) :
    LET name == calls[i].name
    IN  /\ doc.shape = "fragment" /\ calls[i].ret =>
             WrittenCategoryId(name) =
               IF HasId(doc.value)
               THEN dict_get(doc.value[2], JStr(<<"i","d">>), Absent)
               ELSE JStr(doc.key)
        /\ doc.shape = "object" /\ calls[i].ret =>
             /\ HasId(doc.value)
             /\ WrittenCategoryId(name) = dict_get(doc.value[2], JStr(<<"i","d">>), Absent)
        /\ doc.shape = "object" /\ ~HasId(doc.value) =>
             ~calls[i].ret /\ calls[i].err \in {"KeyError", "TypeError"}

C10_Witness ==
  \E i, j \in 1..Len(calls) :
    /\ calls[i].ret
    /\ calls[j].ret
    /\ \E doc \in DocsOf(v2.files[calls[i].name]) :
         doc.shape = "fragment" /\ HasId(doc.value)
    /\ \E doc \in DocsOf(v2.files[calls[j].name]) :
         doc.shape = "fragment" /\ ~HasId(doc.value)

(***************************************************************************)
(* Properties of the converter functions (ConvSpec)                        *)
(***************************************************************************)
Returned(f) == fn = f /\ res # <<>>

OptionalFields == {JStr(<<"a","v","e","r","a","g","e","R","a","t","i","n","g">>), JStr(<<"r","e","v","i","e","w","C","o","u","n","t">>), JStr(<<"b","a","d","g","e">>)}

\* C3: averageRating, reviewCount and badge are in the output link exactly
\* when they are in the source link and not null there, and an output value
\* is never null.
C3_OptionalFieldsNeverNull ==
  Returned("convert_link") /\ res[1].ok =>
    \A f \in OptionalFields :
      /\ dict_has(res[1].val[2], f) <=>
           (dict_has(arg[1][2], f) /\ dict_get(arg[1][2], f, JNull) # JNull)
      /\ dict_has(res[1].val[2], f) => dict_get(res[1].val[2], f, JNull) # JNull

\* C4: a phrase that is a key of BADGE_MAPPING, in any letter case and with
\* any whitespace around it, is normalized to the tag the table gives it;
\* a phrase that is no key has its spaces and hyphens made underscores.
C4_TableDriven ==
  Returned("normalize_badge") =>
    /\ \A i \in 1..Len(BADGE_MAPPING) :
         arg \in Spellings(BADGE_MAPPING[i][1]) =>
           res[1] = Ok(JStr(BADGE_MAPPING[i][2]))
    /\ \A phrase \in UnknownBadges :
         arg \in Spellings(phrase) =>
           res[1] = Ok(JStr([i \in 1..Len(phrase) |->
                              IF phrase[i] \in {" ", "-"} THEN "_" ELSE phrase[i]]))

\* the source links of an item
SourceLinks(item) ==
  IF dict_has(item[2], JStr(<<"a","f","f","i","l","i","a","t","e","L","i","n","k","s">>))
  THEN dict_get(item[2], JStr(<<"a","f","f","i","l","i","a","t","e","L","i","n","k","s">>), JNull)[2]
  ELSE <<>>

HasKey(value, key) == dict_has(value[2], key)

\* C5: when the N links of an item all convert, the links of the output are
\* the conversions of the source links in source order, the k-th with
\* priority k, whatever the ratings, review counts and badges.
C5_PriorityIsSourceOrder ==
  Returned("convert_item") =>
    LET src == SourceLinks(arg)
    IN  /\ res[1].ok <=>
             (HasKey(arg, JStr(<<"i","d">>)) /\ \A k \in 1..Len(src) : HasKey(src[k], JStr(<<"u","r","l">>)))
        /\ res[1].ok =>
             LET out == dict_get(res[1].val[2][2], JStr(<<"l","i","n","k","s">>), JNull)[2]
             IN  /\ Len(out) = Len(src)
                 /\ \A k \in 1..Len(src) :
                      /\ dict_get(out[k][2], JStr(<<"p","r","i","o","r","i","t","y">>), JNull) = JNum(k)
                      /\ dict_get(out[k][2], JStr(<<"u","r","l">>), JNull)
                           = dict_get(src[k][2], JStr(<<"u","r","l">>), Absent)
                      /\ out[k] = convert_link(src[k], k - 1).val

C5_Witness ==
  /\ Returned("convert_item")
  /\ res[1].ok
  /\ \E k \in 1..(Len(SourceLinks(arg)) - 1) :
       /\ SourceLinks(arg)[k] = LinkAmazon
       /\ SourceLinks(arg)[k + 1] = LinkWalmart

\* the source items of a category
SourceItems(category) ==
  IF dict_has(category[2], JStr(<<"i","t","e","m","s">>))
  THEN dict_get(category[2], JStr(<<"i","t","e","m","s">>), JNull)[2]
  ELSE <<>>

ItemId(item) == dict_get(item[2], JStr(<<"i","d">>), Absent)

\* C6: the keys of the output items are the ids of the source items, and an
\* id that several source items share holds the conversion of the last of
\* them, no error being raised.
C6_ItemsKeyedByIdLastWins ==
  Returned("convert_category") =>
    LET src == SourceItems(arg)
    IN  /\ res[1].ok <=>
             (HasKey(arg, JStr(<<"i","d">>)) /\ \A k \in 1..Len(src) : convert_item(src[k]).ok)
        /\ res[1].ok =>
             LET items == dict_get(res[1].val[2], JStr(<<"i","t","e","m","s">>), JNull)[2]
             IN  /\ {items[i][1] : i \in 1..Len(items)}
                      = {ItemId(src[k]) : k \in 1..Len(src)}
                 /\ \A k \in 1..Len(src) :
                      (\A later \in (k + 1)..Len(src) : ItemId(src[later]) # ItemId(src[k]))
                        => dict_get(items, ItemId(src[k]), Absent)
                             = convert_item(src[k]).val[2]

C6_Witness ==
  /\ Returned("convert_category")
  /\ res[1].ok
  /\ \E j, k \in 1..Len(SourceItems(arg)) :
       /\ j < k
       /\ SourceItems(arg)[j] = ItemLamp
       /\ SourceItems(arg)[k] = ItemLampAgain

\* C7 as stated: the Amazon tag when the lowercased name contains "amazon";
\* else, when it contains "walmart", a Walmart tag that is not the Amazon tag;
\* else, when it contains "target", a Target tag that is neither of these;
\* else the default tag.
C7_ThreeDistinctTags ==
  Returned("get_affiliate_tag") =>
    LET name == str_lower(arg)
    IN  IF str_contains(name, <<"a","m","a","z","o","n">>)
        THEN res[1] = DEFAULT_AFFILIATE_TAG_AMAZON
        ELSE IF str_contains(name, <<"w","a","l","m","a","r","t">>)
        THEN /\ res[1] = DEFAULT_AFFILIATE_TAG_WALMART
             /\ res[1] # DEFAULT_AFFILIATE_TAG_AMAZON
        ELSE IF str_contains(name, <<"t","a","r","g","e","t">>)
        THEN /\ res[1] = DEFAULT_AFFILIATE_TAG_TARGET
             /\ res[1] # DEFAULT_AFFILIATE_TAG_AMAZON
             /\ res[1] # DEFAULT_AFFILIATE_TAG_WALMART
        ELSE res[1] = DEFAULT_AFFILIATE_TAG_OTHER

\* C7 as amended: as stated, but the Target tag is only required to differ
\* from the Amazon tag (it is the same identifier as the Walmart tag).
C7_TagOfFirstMatchingRetailer ==
  Returned("get_affiliate_tag") =>
    LET name == str_lower(arg)
    IN  IF str_contains(name, <<"a","m","a","z","o","n">>)
        THEN res[1] = DEFAULT_AFFILIATE_TAG_AMAZON
        ELSE IF str_contains(name, <<"w","a","l","m","a","r","t">>)
        THEN /\ res[1] = DEFAULT_AFFILIATE_TAG_WALMART
             /\ res[1] # DEFAULT_AFFILIATE_TAG_AMAZON
        ELSE IF str_contains(name, <<"t","a","r","g","e","t">>)
        THEN /\ res[1] = DEFAULT_AFFILIATE_TAG_TARGET
             /\ res[1] # DEFAULT_AFFILIATE_TAG_AMAZON
             /\ res[1] = DEFAULT_AFFILIATE_TAG_WALMART
        ELSE res[1] = DEFAULT_AFFILIATE_TAG_OTHER

C7_Witness ==
  /\ Returned("get_affiliate_tag")
  /\ arg = <<"A","M","A","Z","O","N",".","C","O","M">>
  /\ res[1] = DEFAULT_AFFILIATE_TAG_AMAZON

=============================================================================
